---- MODULE Spec2Model ----
(***************************************************************************)
(* Model of compare_embeddings (src/voice_verification_v2.py, lines 50-96) *)
(* and of its invocation from the script's main block (lines 99-120).      *)
(*                                                                         *)
(* The embedding directory holds n files; file number k (1..n) stands for  *)
(* a distinct base name, embeddings[k] is the vector np.load returns for   *)
(* it after reshape(1, -1).  Vectors are sequences of integers and the     *)
(* threshold is a rational num/den, den > 0, so that the comparison        *)
(* "cosine_similarity(...) >= threshold" is decided exactly; no score of   *)
(* the vectors below equals one of the thresholds below except through     *)
(* the zero vector, so floating-point rounding does not change a decision. *)
(*                                                                         *)
(* clusters models the Python dict: a sequence of entries in insertion     *)
(* order, each entry a key (id) and a set of files.  The values are Python *)
(* sets of str: their iteration order follows the strings' hashes, which   *)
(* are salted per process, so the order in which a printed line lists the  *)
(* members is a choice made anew by every run.                             *)
(***************************************************************************)
EXTENDS Integers, Sequences, FiniteSets, TLC

\* Largest number of embedding files in the directory.
MaxN == 4

\* Largest number of embedding files in a directory the script is run on
\* more than once.
MaxRerunN == 4

\* The vectors a file may hold: three directions of the plane, at 0, 45 and
\* 135 degrees, the zero vector, and a vector of another dimensionality.
Vectors == {<<1, 0>>, <<1, 1>>, <<-1, 1>>, <<0, 0>>, <<1>>}

\* The thresholds a run may be given: -1/2, the default 0.6, and 9/10.
DefaultThreshold == [num |-> 3, den |-> 5]
Thresholds == {[num |-> -1, den |-> 2], DefaultThreshold, [num |-> 9, den |-> 10]}

\* The vectors and thresholds of a directory the script is run on more than
\* once.
RerunVectors == {<<1, 0>>, <<1, 1>>, <<-1, 1>>, <<1>>}
RerunThresholds == {[num |-> -1, den |-> 2], DefaultThreshold}

\* Number of files of the wider directories: enough for three clusters.
WideN == 6

\* A wider directory holds <<0, -1>> in its first two files and any of these
\* in the others; it is scanned with the default threshold.
WideVectors == {<<1, 0>>, <<1, 1>>, <<0, 1>>, <<1>>}

\* next(..., None): the value of a lookup that finds no cluster.
None == -1

VARIABLES
    embedding_files,  \* the listing: sequence of file numbers
    embeddings,       \* embeddings[k]: the vector loaded from file k
    threshold,        \* the run's threshold, a rational
    clusters,         \* the dict, as a sequence of [id, files] entries
    next_cluster_id,  \* the id the next new cluster gets
    i, j,             \* the pair the scan is about to evaluate
    scanned,          \* the pairs evaluated so far, in order
    pc,               \* "scan", "print", "done" or "ValueError"
    output,           \* the lines printed: [cluster_id, files (a sequence)]
    prev              \* threshold and outcome of the previous run

vars == <<embedding_files, embeddings, threshold, clusters, next_cluster_id,
          i, j, scanned, pc, output, prev>>

----------------------------------------------------------------------------
(* Sequences and sets *)

Range(s) == {s[k] : k \in DOMAIN s}

RECURSIVE SumOver(_, _)
SumOver(f, D) ==
    IF D = {} THEN 0
    ELSE LET k == CHOOSE x \in D : TRUE IN f[k] + SumOver(f, D \ {k})

----------------------------------------------------------------------------
(* sklearn.metrics.pairwise.cosine_similarity *)

\* No check of the dimensions.
ShapeUnchecked(a, b) == TRUE

\* check_pairwise_arrays: X and Y must have the same number of columns,
\* otherwise ValueError("Incompatible dimension for X and Y matrices").
ShapeOK(a, b) == Len(a) = Len(b)

Dot(a, b) ==
    LET D == DOMAIN a \cap DOMAIN b
    IN SumOver([k \in D |-> a[k] * b[k]], D)

NormSq(a) == Dot(a, a)

IsZero(a) == NormSq(a) = 0

\* similarity_score >= threshold, for nonzero a and b:
\*   Dot(a,b) / sqrt(NormSq(a) * NormSq(b)) >= num / den
\* decided on the squares, by the signs of the two sides.
RatioGE(d, nn, t) ==
    LET L == d * t.den
        R2 == t.num * t.num * nn
    IN IF L >= 0
       THEN (t.num <= 0) \/ (L * L >= R2)
       ELSE (t.num <= 0) /\ (L * L <= R2)

\* similarity_score < threshold
SimBelow(a, b, t) ==
    IF IsZero(a) \/ IsZero(b)
    THEN t.num > 0
    ELSE ~RatioGE(Dot(a, b), NormSq(a) * NormSq(b), t)

\* normalize() divides each row by its norm and leaves a row of zero norm
\* as it is, so a pair with a zero vector scores 0.
SimGE(a, b, t) ==
    IF IsZero(a) \/ IsZero(b)
    THEN t.num <= 0
    ELSE RatioGE(Dot(a, b), NormSq(a) * NormSq(b), t)

----------------------------------------------------------------------------
(* The loop nest of lines 69-70 *)

\* range(i + 1, len(embeddings) - 1)
JRangeShort(ii, n) == (ii + 1) .. (n - 2)

\* The inner loop started at i instead of i + 1.
JRangeFromI(ii, n) == ii .. (n - 1)

\* range(i + 1, len(embeddings))
JRange(ii, n) == (ii + 1) .. (n - 1)

\* The order in which range() yields the members of an interval.
RECURSIVE Ascending(_)
Ascending(S) ==
    IF S = {} THEN <<>>
    ELSE LET m == CHOOSE x \in S : \A y \in S : x <= y
         IN <<m>> \o Ascending(S \ {m})

\* The pairs (i, j) the loop nest visits from the outer index ii on, in the
\* order it visits them.
RECURSIVE PairsFrom(_, _)
PairsFrom(ii, n) ==
    IF ii >= n THEN <<>>
    ELSE LET js == Ascending(JRange(ii, n))
         IN [k \in 1 .. Len(js) |-> <<ii, js[k]>>] \o PairsFrom(ii + 1, n)

AllPairs(n) == PairsFrom(0, n)

----------------------------------------------------------------------------
(* The dict clusters *)

Keys(cl) == {cl[k].id : k \in DOMAIN cl}

Get(cl, cid) == (CHOOSE k \in DOMAIN cl : cl[k].id = cid)

FilesOf(cl, cid) == cl[Get(cl, cid)].files

\* next((k for k, v in clusters.items() if file in v), None)
ClusterOf(cl, file) ==
    LET hits == {k \in DOMAIN cl : file \in cl[k].files}
    IN IF hits = {} THEN None
       ELSE cl[CHOOSE k \in hits : \A m \in hits : k <= m].id

\* clusters[next_cluster_id + 1] = {file_i, file_j}
NewClusterNextId(cl, cid, file_i, file_j) ==
    Append(cl, [id |-> cid + 1, files |-> {file_i, file_j}])

\* The new cluster holds file_j only.
NewClusterOnlyJ(cl, cid, file_i, file_j) ==
    Append(cl, [id |-> cid, files |-> {file_j}])

\* The new cluster holds file_i only.
NewClusterOnlyI(cl, cid, file_i, file_j) ==
    Append(cl, [id |-> cid, files |-> {file_i}])

\* clusters[next_cluster_id] = {file_i, file_j}: a new key goes last.
NewCluster(cl, cid, file_i, file_j) ==
    Append(cl, [id |-> cid, files |-> {file_i, file_j}])

\* clusters[cid] = {file}
AddFileAssign(cl, cid, file) ==
    [k \in DOMAIN cl |->
        IF cl[k].id = cid THEN [id |-> cid, files |-> {file}] ELSE cl[k]]

\* for v in clusters.values(): v.add(file)
AddFileEverywhere(cl, cid, file) ==
    [k \in DOMAIN cl |-> [id |-> cl[k].id, files |-> cl[k].files \cup {file}]]

\* The add of lines 84 and 87 left out.
AddFileDropped(cl, cid, file) == cl

\* clusters[cid].add(file): the key keeps its place.
AddFile(cl, cid, file) ==
    [k \in DOMAIN cl |->
        IF cl[k].id = cid
        THEN [id |-> cid, files |-> cl[k].files \cup {file}]
        ELSE cl[k]]

\* del clusters[cid]
DelKey(cl, cid) == SelectSeq(cl, LAMBDA e : e.id # cid)

\* Lines 89-92 left out: two clusters found to be linked stay apart.
MergeClustersSkipped(cl, cluster_id_i, cluster_id_j) == cl

\* The merge deletes cluster_id_j without the update.
MergeClustersNoUpdate(cl, cluster_id_i, cluster_id_j) == DelKey(cl, cluster_id_j)

\* The merge updates cluster_id_i without deleting cluster_id_j.
MergeClustersNoDel(cl, cluster_id_i, cluster_id_j) ==
    [k \in DOMAIN cl |->
        IF cl[k].id = cluster_id_i
        THEN [id |-> cluster_id_i,
              files |-> cl[k].files \cup FilesOf(cl, cluster_id_j)]
        ELSE cl[k]]

\* clusters[cluster_id_i] = clusters[cluster_id_j]
\* del clusters[cluster_id_j]
MergeClustersAssign(cl, cluster_id_i, cluster_id_j) ==
    DelKey([k \in DOMAIN cl |->
               IF cl[k].id = cluster_id_i
               THEN [id |-> cluster_id_i, files |-> FilesOf(cl, cluster_id_j)]
               ELSE cl[k]],
           cluster_id_j)

\* The merge updates cluster_id_j and deletes cluster_id_i.
MergeClustersKeepJ(cl, cluster_id_i, cluster_id_j) ==
    DelKey([k \in DOMAIN cl |->
               IF cl[k].id = cluster_id_j
               THEN [id |-> cluster_id_j,
                     files |-> cl[k].files \cup FilesOf(cl, cluster_id_i)]
               ELSE cl[k]],
           cluster_id_i)

\* clusters[cluster_id_i].update(clusters[cluster_id_j])
\* del clusters[cluster_id_j]
MergeClusters(cl, cluster_id_i, cluster_id_j) ==
    LET upd == [k \in DOMAIN cl |->
                   IF cl[k].id = cluster_id_i
                   THEN [id |-> cluster_id_i,
                         files |-> cl[k].files \cup FilesOf(cl, cluster_id_j)]
                   ELSE cl[k]]
    IN DelKey(upd, cluster_id_j)

\* Lines 74-92: what a pair at or above the threshold does to the dict and
\* to the id counter.
OnMatch(cl, nid, fi, fj) ==
    LET ci == ClusterOf(cl, fi)
        cj == ClusterOf(cl, fj)
    IN IF ci = None /\ cj = None
       THEN [clusters |-> NewCluster(cl, nid, fi, fj), next_cluster_id |-> nid + 1]
       ELSE IF ci # None /\ cj = None
       THEN [clusters |-> AddFile(cl, ci, fj), next_cluster_id |-> nid]
       ELSE IF ci = None /\ cj # None
       THEN [clusters |-> AddFile(cl, cj, fi), next_cluster_id |-> nid]
       ELSE IF ci # cj
       THEN [clusters |-> MergeClusters(cl, ci, cj), next_cluster_id |-> nid]
       ELSE [clusters |-> cl, next_cluster_id |-> nid]

\* Lines 66-92 as a function of the listing, the vectors and the threshold:
\* the loop body applied to the pairs P still to come, in order.
RECURSIVE ScanFrom(_, _, _, _, _, _)
ScanFrom(k, st, pairs, files, emb, t) ==
    IF k > Len(pairs) THEN st
    ELSE LET fi == files[pairs[k][1] + 1]
             fj == files[pairs[k][2] + 1]
         IN IF ~ShapeOK(emb[fi], emb[fj])
            THEN [st EXCEPT !.status = "ValueError"]
            ELSE IF SimGE(emb[fi], emb[fj], t)
            THEN LET r == OnMatch(st.clusters, st.next_cluster_id, fi, fj)
                 IN ScanFrom(k + 1,
                             [status |-> "done", clusters |-> r.clusters,
                              next_cluster_id |-> r.next_cluster_id],
                             pairs, files, emb, t)
            ELSE ScanFrom(k + 1, st, pairs, files, emb, t)

ClusterAll(files, emb, t) ==
    ScanFrom(1, [status |-> "done", clusters |-> <<>>, next_cluster_id |-> 0],
             AllPairs(Len(files)), files, emb, t)

----------------------------------------------------------------------------
(* Printing *)

\* The orders of the elements of S: each gives every element its rank.
RECURSIVE Orders(_)
Orders(S) ==
    IF S = {} THEN {[x \in {} |-> 0]}
    ELSE UNION {{[y \in S |-> IF y = x THEN Cardinality(S) ELSE f[y]] :
                    f \in Orders(S \ {x})} : x \in S}

\* ', '.join(files): the members in the set's iteration order, here the
\* order ord that the process's string hashes induce.
RECURSIVE Joined(_, _)
Joined(files, ord) ==
    IF files = {} THEN <<>>
    ELSE LET m == CHOOSE x \in files : \A y \in files : ord[x] <= ord[y]
         IN <<m>> \o Joined(files \ {m}, ord)

\* for cluster_id, files in reversed(clusters.items()): print(...)
PrintedReversed(cl, ord) ==
    [k \in DOMAIN cl |->
        [cluster_id |-> cl[Len(cl) + 1 - k].id,
         files |-> Joined(cl[Len(cl) + 1 - k].files, ord)]]

\* for cluster_id, files in clusters.items(): print(...)
Printed(cl, ord) ==
    [k \in DOMAIN cl |-> [cluster_id |-> cl[k].id, files |-> Joined(cl[k].files, ord)]]

----------------------------------------------------------------------------
(* The state machine *)

NoRun == [status |-> "none", threshold |-> DefaultThreshold, output |-> <<>>]

\* Lines 61-67: the state when the scan is about to start.
Start(t) ==
    LET n == Len(embedding_files)
    IN /\ threshold' = t
       /\ clusters' = <<>>
       /\ next_cluster_id' = 0
       /\ scanned' = <<>>
       /\ output' = <<>>
       /\ IF AllPairs(n) = <<>>
          THEN i' = 0 /\ j' = 0 /\ pc' = "print"
          ELSE /\ i' = AllPairs(n)[1][1]
               /\ j' = AllPairs(n)[1][2]
               /\ pc' = "scan"

InitFrom(maxn, vectors, thresholds) ==
    /\ \E n \in 0 .. maxn :
          /\ embedding_files = [k \in 1 .. n |-> k]
          /\ embeddings \in [1 .. n -> vectors]
          /\ IF AllPairs(n) = <<>>
             THEN i = 0 /\ j = 0 /\ pc = "print"
             ELSE /\ i = AllPairs(n)[1][1]
                  /\ j = AllPairs(n)[1][2]
                  /\ pc = "scan"
    /\ threshold \in thresholds
    /\ clusters = <<>>
    /\ next_cluster_id = 0
    /\ scanned = <<>>
    /\ output = <<>>
    /\ prev = NoRun

Init == InitFrom(MaxN, Vectors, Thresholds)

InitRerun == InitFrom(MaxRerunN, RerunVectors, RerunThresholds)

InitWide ==
    /\ embedding_files = [k \in 1 .. WideN |-> k]
    /\ embeddings \in {e \in [1 .. WideN -> WideVectors \cup {<<0, -1>>}] :
                           \A k \in 1 .. WideN : (e[k] = <<0, -1>>) <=> (k <= 2)}
    /\ threshold = DefaultThreshold
    /\ i = AllPairs(WideN)[1][1]
    /\ j = AllPairs(WideN)[1][2]
    /\ pc = "scan"
    /\ clusters = <<>>
    /\ next_cluster_id = 0
    /\ scanned = <<>>
    /\ output = <<>>
    /\ prev = NoRun

file_i == embedding_files[i + 1]
file_j == embedding_files[j + 1]
cluster_id_i == ClusterOf(clusters, file_i)
cluster_id_j == ClusterOf(clusters, file_j)

Evaluating == pc = "scan"

Scored == Evaluating /\ ShapeOK(embeddings[file_i], embeddings[file_j])

Matched == Scored /\ SimGE(embeddings[file_i], embeddings[file_j], threshold)

\* The loop counters move to the next pair, or the loop nest ends.
Advance ==
    LET pairs == AllPairs(Len(embedding_files))
        k == Len(scanned) + 2
    IN /\ scanned' = Append(scanned, <<i, j>>)
       /\ IF k > Len(pairs)
          THEN i' = i /\ j' = j /\ pc' = "print"
          ELSE i' = pairs[k][1] /\ j' = pairs[k][2] /\ pc' = "scan"

Frame == UNCHANGED <<embedding_files, embeddings, threshold, output, prev>>

\* Line 71 raises: the two vectors differ in dimensionality.
RaiseValueError ==
    /\ Evaluating
    /\ ~ShapeOK(embeddings[file_i], embeddings[file_j])
    /\ pc' = "ValueError"
    /\ scanned' = Append(scanned, <<i, j>>)
    /\ UNCHANGED <<clusters, next_cluster_id, i, j>>
    /\ Frame

\* Line 73 is false.
BelowThreshold ==
    /\ Scored
    /\ ~SimGE(embeddings[file_i], embeddings[file_j], threshold)
    /\ UNCHANGED <<clusters, next_cluster_id>>
    /\ Advance
    /\ Frame

\* Lines 79-82.
CreateCluster ==
    /\ Matched
    /\ cluster_id_i = None /\ cluster_id_j = None
    /\ clusters' = NewCluster(clusters, next_cluster_id, file_i, file_j)
    /\ next_cluster_id' = next_cluster_id + 1
    /\ Advance
    /\ Frame

\* Lines 83-85.
AddJ ==
    /\ Matched
    /\ cluster_id_i # None /\ cluster_id_j = None
    /\ clusters' = AddFile(clusters, cluster_id_i, file_j)
    /\ UNCHANGED next_cluster_id
    /\ Advance
    /\ Frame

\* Lines 86-88.
AddI ==
    /\ Matched
    /\ cluster_id_i = None /\ cluster_id_j # None
    /\ clusters' = AddFile(clusters, cluster_id_j, file_i)
    /\ UNCHANGED next_cluster_id
    /\ Advance
    /\ Frame

\* Lines 89-92.
Merge ==
    /\ Matched
    /\ cluster_id_i # None /\ cluster_id_j # None
    /\ cluster_id_i # cluster_id_j
    /\ clusters' = MergeClusters(clusters, cluster_id_i, cluster_id_j)
    /\ UNCHANGED next_cluster_id
    /\ Advance
    /\ Frame

\* Line 89 as a plain else: the merge branch also takes the pairs whose
\* files are in the same cluster.
SameClusterMerges ==
    /\ Matched
    /\ cluster_id_i # None /\ cluster_id_j # None
    /\ cluster_id_i = cluster_id_j
    /\ clusters' = MergeClusters(clusters, cluster_id_i, cluster_id_j)
    /\ UNCHANGED next_cluster_id
    /\ Advance
    /\ Frame

\* No branch of lines 79-92 applies: both files are in the same cluster.
SameCluster ==
    /\ Matched
    /\ cluster_id_i # None /\ cluster_id_j # None
    /\ cluster_id_i = cluster_id_j
    /\ UNCHANGED <<clusters, next_cluster_id>>
    /\ Advance
    /\ Frame

\* Lines 95-96.
PrintClusters ==
    /\ pc = "print"
    /\ \E ord \in Orders(Range(embedding_files)) :
          output' = Printed(clusters, ord)
    /\ pc' = "done"
    /\ UNCHANGED <<embedding_files, embeddings, threshold, clusters,
                   next_cluster_id, i, j, scanned, prev>>

\* The script is run again on the same directory, with any threshold.
Rerun ==
    /\ pc \in {"done", "ValueError"}
    /\ prev' = [status |-> pc, threshold |-> threshold, output |-> output]
    /\ \E t \in RerunThresholds : Start(t)
    /\ UNCHANGED <<embedding_files, embeddings>>

Next ==
    \/ RaiseValueError
    \/ BelowThreshold
    \/ CreateCluster
    \/ AddJ
    \/ AddI
    \/ Merge
    \/ SameCluster
    \/ PrintClusters

\* One run of the script.
Spec == Init /\ [][Next]_vars

NextRerun ==
    \/ Next
    \/ Rerun

\* Any number of runs of the script on one directory.
SpecRerun == InitRerun /\ [][NextRerun]_vars

\* One run of the script on a wider directory.
SpecWide == InitWide /\ [][Next]_vars

----------------------------------------------------------------------------
(* Vocabulary of the properties *)

n_files == Len(embedding_files)
Files == Range(embedding_files)

\* The member sets held by a dict.
Members(cl) == {cl[k].files : k \in DOMAIN cl}
Covered(cl) == UNION Members(cl)

Scanned == pc \in {"print", "done"}

\* Both vectors of a pair can be scored and the score reaches the threshold.
Similar(a, b, t) ==
    /\ ShapeOK(embeddings[a], embeddings[b])
    /\ SimGE(embeddings[a], embeddings[b], t)

\* t1 <= t2 for rationals with positive denominators.
ThresholdLE(t1, t2) == t1.num * t2.den <= t2.num * t1.den

\* The scan, run to its end, and the function of lines 66-92 agree.
ScanAgrees ==
    Scanned =>
        LET r == ClusterAll(embedding_files, embeddings, threshold)
        IN /\ r.status = "done"
           /\ r.clusters = clusters
           /\ r.next_cluster_id = next_cluster_id

RaiseAgrees ==
    pc = "ValueError" =>
        ClusterAll(embedding_files, embeddings, threshold).status = "ValueError"

----------------------------------------------------------------------------
(* Transitivity *)

\* SimilarAt(t)[a, b]: a and b are distinct and their score reaches t.
SimilarAt(t) == [a \in Files, b \in Files |-> a # b /\ Similar(a, b, t)]

\* The files linked to those of S by chains of pairs related by sim.
RECURSIVE Closure(_, _)
Closure(S, sim) ==
    LET T == S \cup {y \in Files \ S : \E x \in S : sim[x, y]}
    IN IF T = S THEN S ELSE Closure(T, sim)

\* The classes of two or more files linked by chains of pairs at or above t.
Components(t) ==
    LET sim == SimilarAt(t)
    IN {c \in {Closure({a}, sim) : a \in Files} : Cardinality(c) >= 2}

InOneCluster(cl, a, b) == \E c \in Members(cl) : a \in c /\ b \in c

\* C1: once the scan has completed, any two identifiers linked by a chain of
\* pairs with similarity >= threshold are members of one cluster; so A, B, C
\* with sim(A,B) >= threshold and sim(B,C) >= threshold share a cluster even
\* when sim(A,C) < threshold.
Transitivity ==
    Scanned =>
        \A c \in Components(threshold) :
            \A a, b \in c : InOneCluster(clusters, a, b)

\* A finished scan with A~B, B~C, not A~C, and the three in one cluster.
TransitivityWitness ==
    /\ pc = "done"
    /\ \E a, b, c \in Files :
          /\ a # b /\ b # c /\ a # c
          /\ Similar(a, b, threshold)
          /\ Similar(b, c, threshold)
          /\ ~Similar(a, c, threshold)
          /\ \E m \in Members(clusters) : {a, b, c} \subseteq m

----------------------------------------------------------------------------
(* Disjointness *)

OutputMembers(out) == [k \in DOMAIN out |-> Range(out[k].files)]

\* C2: in every state of the scan the member sets under two distinct
\* cluster ids do not intersect, and no identifier is printed in two lines
\* or twice in a line.
Disjointness ==
    /\ \A k, m \in DOMAIN clusters :
          k # m => /\ clusters[k].id # clusters[m].id
                   /\ clusters[k].files \cap clusters[m].files = {}
    /\ \A k, m \in DOMAIN output :
          k # m => Range(output[k].files) \cap Range(output[m].files) = {}
    /\ \A k \in DOMAIN output :
          Len(output[k].files) = Cardinality(Range(output[k].files))

\* Two clusters have been printed.
DisjointnessWitness == pc = "done" /\ Len(output) >= 2

----------------------------------------------------------------------------
(* Singleton omission *)

Unmatched(f, t) == \A g \in Files : g # f => ~Similar(f, g, t)

\* C3: an identifier whose similarity to every other item is below the
\* threshold is never in the registry nor in the output, and every cluster
\* of the registry and every printed line has at least two members.
SingletonOmission ==
    /\ \A f \in Files :
          Unmatched(f, threshold) =>
              /\ f \notin Covered(clusters)
              /\ \A k \in DOMAIN output : f \notin Range(output[k].files)
    /\ \A c \in Members(clusters) : Cardinality(c) >= 2
    /\ \A k \in DOMAIN output : Len(output[k].files) >= 2

\* A cluster has been printed and some file matched nobody.
SingletonOmissionWitness ==
    /\ pc = "done"
    /\ output # <<>>
    /\ \E f \in Files : Unmatched(f, threshold)

----------------------------------------------------------------------------
(* Empty and single-item inputs *)

\* C9: with zero or one item no pair is evaluated, the registry stays
\* empty, the id counter stays 0 and nothing is printed, whatever the
\* threshold.
SmallInputEmpty ==
    n_files <= 1 =>
        /\ scanned = <<>>
        /\ clusters = <<>>
        /\ next_cluster_id = 0
        /\ output = <<>>
        /\ pc \in {"print", "done"}

\* A run on a single file has finished.
SmallInputWitness == n_files = 1 /\ pc = "done"

----------------------------------------------------------------------------
(* Threshold monotonicity *)

\* The clusters a run on the same listing and vectors produces at t.
ClustersAt(t) == Members(ClusterAll(embedding_files, embeddings, t).clusters)

Produced == {Range(output[k].files) : k \in DOMAIN output}

\* C4: for the same input and a threshold t2 >= the threshold of this run,
\* every cluster produced at t2 lies within a cluster this run produces, and
\* the identifiers covered at t2 are among those this run covers.  The
\* clusters of this run are those the registry holds when the scan has
\* completed, which are the ones then printed.
ThresholdMonotonicity ==
    /\ pc = "print" =>
          LET lo == Members(clusters)
          IN \A t2 \in Thresholds :
                 ThresholdLE(threshold, t2) =>
                     LET hi == ClustersAt(t2)
                     IN /\ \A c \in hi : \E d \in lo : c \subseteq d
                        /\ UNION hi \subseteq UNION lo
    /\ pc = "done" => Produced = Members(clusters)

\* A cluster of this run splits in two at a higher threshold, and an
\* identifier this run covered is not covered there.
ThresholdMonotonicityWitness ==
    /\ pc = "done"
    /\ \E t2 \in Thresholds :
          /\ ThresholdLE(threshold, t2) /\ t2 # threshold
          /\ \E d \in Produced : \E c1, c2 \in ClustersAt(t2) :
                c1 # c2 /\ c1 \subseteq d /\ c2 \subseteq d

----------------------------------------------------------------------------
(* Determinism *)

\* C5: two runs on the same listing with the same threshold print the same
\* lines: the same cluster ids, each with the same members in the same
\* order.
Determinism ==
    (pc = "done" /\ prev.status = "done" /\ prev.threshold = threshold)
        => output = prev.output

----------------------------------------------------------------------------
(* Degenerate vectors *)

\* C6: with a vector of zero norm in the input the call fails before any
\* output: the run never completes, and a pair with a zero vector is never
\* scored and passed over with the scan going on.
DegenerateVectorRejected ==
    /\ (\E f \in Files : IsZero(embeddings[f])) => pc # "done"
    /\ \A k \in DOMAIN scanned :
          (\/ IsZero(embeddings[embedding_files[scanned[k][1] + 1]])
           \/ IsZero(embeddings[embedding_files[scanned[k][2] + 1]]))
              => pc \notin {"scan", "print", "done"}

----------------------------------------------------------------------------
(* Shape mismatch *)

Mismatched == \E a, b \in Files : Len(embeddings[a]) # Len(embeddings[b])

\* C7: when two input vectors differ in dimensionality the call ends in the
\* error cosine_similarity raises for it and prints nothing, whatever
\* clusters the pairs before the mismatching one have formed.
ShapeMismatchFatal ==
    Mismatched =>
        /\ pc \in {"scan", "ValueError"}
        /\ output = <<>>

\* The error was raised after a cluster had been formed.
ShapeMismatchWitness == pc = "ValueError" /\ clusters # <<>>

----------------------------------------------------------------------------
(* All pairs above the threshold *)

AllSimilar == \A a, b \in Files : a # b => Similar(a, b, threshold)

OneClusterOfAll ==
    /\ Len(output) = 1
    /\ Range(output[1].files) = Files

\* C8, as stated: an input of n items whose pairs are all at or above the
\* threshold yields exactly one cluster holding all n identifiers.
AllPairsAboveThresholdAnyN == (pc = "done" /\ AllSimilar) => OneClusterOfAll

\* C8, amended: the same for n >= 2.
AllPairsAboveThreshold ==
    (pc = "done" /\ AllSimilar /\ n_files >= 2) => OneClusterOfAll

\* A run on MaxN files, all pairs at or above the threshold, has finished.
AllPairsAboveThresholdWitness ==
    pc = "done" /\ AllSimilar /\ n_files >= 3 /\ OneClusterOfAll

----------------------------------------------------------------------------
(* Output order *)

OutputOrderMergeWitness ==
    /\ pc = "done"
    /\ Len(output) = 1
    /\ output[1].cluster_id = 1
    /\ next_cluster_id = 2

----------------------------------------------------------------------------
(* The registry during the scan *)

\* The files of the pairs evaluated so far that reached the threshold.
MatchedSoFar ==
    UNION {{embedding_files[scanned[k][1] + 1], embedding_files[scanned[k][2] + 1]} :
              k \in {m \in DOMAIN scanned :
                        Similar(embedding_files[scanned[m][1] + 1],
                                embedding_files[scanned[m][2] + 1], threshold)}}

Owners(cl, f) == {k \in DOMAIN cl : f \in cl[k].files}

\* C11: after each processed pair, every identifier of an already processed
\* pair with similarity >= threshold is a member of exactly one cluster of
\* the registry, so a lookup finds one owning cluster id and no other.
RegistryInvariant ==
    \A f \in MatchedSoFar :
        /\ Cardinality(Owners(clusters, f)) = 1
        /\ ClusterOf(clusters, f) \in Keys(clusters)

\* Two clusters are registered and the scan goes on.
RegistryInvariantWitness ==
    /\ pc = "scan"
    /\ Len(clusters) = 2
    /\ Cardinality(MatchedSoFar) = 4

----------------------------------------------------------------------------
(* Merge of two clusters *)

\* The id of the cluster that holds f, for an f that a cluster holds.
OwnerId(cl, f) == cl[CHOOSE k \in DOMAIN cl : f \in cl[k].files].id

\* The pair about to be evaluated reaches the threshold and its two files
\* are held by different clusters.
MergeCase ==
    /\ pc = "scan"
    /\ Similar(file_i, file_j, threshold)
    /\ Owners(clusters, file_i) # {}
    /\ Owners(clusters, file_j) # {}
    /\ Owners(clusters, file_i) # Owners(clusters, file_j)

\* C12: processing a pair at or above the threshold whose identifiers are
\* in different clusters leaves under i's cluster id the union of the two
\* member sets, removes j's cluster id from the keys, and changes neither
\* the id counter nor any other cluster.
MergeEffect ==
    [][MergeCase =>
          LET ci == OwnerId(clusters, file_i)
              cj == OwnerId(clusters, file_j)
          IN /\ Keys(clusters') = Keys(clusters) \ {cj}
             /\ Len(clusters') = Len(clusters) - 1
             /\ FilesOf(clusters', ci) = FilesOf(clusters, ci) \cup FilesOf(clusters, cj)
             /\ next_cluster_id' = next_cluster_id
             /\ \A k \in Keys(clusters) \ {ci, cj} :
                   FilesOf(clusters', k) = FilesOf(clusters, k)]_vars

\* Three clusters were created and a merge has left two of them, the one
\* it did not touch among them.
MergeEffectWitness ==
    /\ next_cluster_id = 3
    /\ Len(clusters) = 2
    /\ \E k \in DOMAIN clusters : Cardinality(clusters[k].files) = 4

----------------------------------------------------------------------------
(* The id a merge keeps *)

Smaller(a, b) == IF a <= b THEN a ELSE b
Larger(a, b) == IF a <= b THEN b ELSE a

\* C13, as stated: a merge keeps the id of the cluster registered first,
\* the smaller of the two ids, and deletes the id registered later.
SurvivorIsFirstRegistered ==
    [][MergeCase =>
          LET ci == OwnerId(clusters, file_i)
              cj == OwnerId(clusters, file_j)
          IN /\ Smaller(ci, cj) \in Keys(clusters')
             /\ Larger(ci, cj) \notin Keys(clusters')]_vars

\* C13, amended: a merge keeps the id of the cluster that holds the pair's
\* first identifier (the one at index i), whether registered first or not,
\* and deletes the id of the cluster that holds the second; the kept
\* cluster then holds both identifiers.
SurvivorIsClusterOfI ==
    [][MergeCase =>
          LET ci == OwnerId(clusters, file_i)
              cj == OwnerId(clusters, file_j)
          IN /\ ci \in Keys(clusters')
             /\ cj \notin Keys(clusters')
             /\ OwnerId(clusters', file_i) = ci
             /\ OwnerId(clusters', file_j) = ci]_vars

\* A merge has kept cluster 2 and deleted cluster 1, registered before it.
SurvivorWitness ==
    /\ next_cluster_id = 3
    /\ Keys(clusters) = {0, 2}
    /\ Cardinality(FilesOf(clusters, 2)) = 4

----------------------------------------------------------------------------
(* Assignment of cluster ids *)

\* The pair about to be evaluated reaches the threshold and neither of its
\* files is held by a cluster.
NewPairCase ==
    /\ pc = "scan"
    /\ Similar(file_i, file_j, threshold)
    /\ Owners(clusters, file_i) = {}
    /\ Owners(clusters, file_j) = {}

\* A step that registers a new cluster for a pair.
NewPairStep ==
    NewPairCase =>
        /\ next_cluster_id' = next_cluster_id + 1
        /\ clusters' = Append(clusters,
                               [id |-> next_cluster_id, files |-> {file_i, file_j}])

OtherStep ==
    ~NewPairCase =>
        /\ next_cluster_id' = next_cluster_id
        /\ Keys(clusters') \subseteq Keys(clusters)

\* C14: the id counter starts at 0; a step increases it, by exactly 1, only
\* when a pair matches with neither identifier in a cluster, and then the
\* cluster {id_i, id_j} is registered under the counter's previous value; no
\* other step adds a key; all keys stay below the counter, so an id a merge
\* deleted is never assigned again.
ClusterIdAssignment ==
    /\ next_cluster_id = 0
    /\ [](\A k \in Keys(clusters) : 0 <= k /\ k < next_cluster_id)
    /\ [][NewPairStep /\ OtherStep]_vars

\* Ids 0 and 1 were assigned and a merge has deleted id 0.
ClusterIdAssignmentWitness ==
    /\ pc = "print"
    /\ next_cluster_id = 2
    /\ Keys(clusters) = {1}

----------------------------------------------------------------------------
(* A pair within one cluster *)

\* The pair about to be evaluated reaches the threshold and one cluster
\* holds both of its files.
SameCase ==
    /\ pc = "scan"
    /\ Similar(file_i, file_j, threshold)
    /\ Owners(clusters, file_i) # {}
    /\ Owners(clusters, file_i) = Owners(clusters, file_j)

\* C15: processing a pair at or above the threshold whose identifiers are
\* already in the same cluster leaves the registry, keys and member sets,
\* and the id counter as they were.
SameClusterNoOp ==
    [][SameCase => /\ clusters' = clusters
                   /\ next_cluster_id' = next_cluster_id]_vars

\* The pairs (0,1), (0,2), (1,2) all reached the threshold: the third found
\* its files in cluster 0, which holds the three files as before.
SameClusterNoOpWitness ==
    /\ Len(scanned) = 3
    /\ n_files >= 3
    /\ \A a, b \in 1 .. 3 : a # b => Similar(a, b, threshold)
    /\ clusters = <<[id |-> 0, files |-> {1, 2, 3}]>>
    /\ next_cluster_id = 1

----------------------------------------------------------------------------
(* Order of the pairs and end of the scan *)

\* The unordered pairs of positions of the listing, smaller position first.
UnorderedPairs == {p \in (0 .. (n_files - 1)) \X (0 .. (n_files - 1)) : p[1] < p[2]}

\* p comes before q in ascending i, then ascending j.
Before(p, q) == p[1] < q[1] \/ (p[1] = q[1] /\ p[2] < q[2])

\* The pairs evaluated so far are pairs i < j in strictly ascending order,
\* none left out between two of them or before the pair about to be
\* evaluated.
InScanOrder ==
    /\ \A k \in DOMAIN scanned : scanned[k] \in UnorderedPairs
    /\ \A k, m \in DOMAIN scanned : k < m => Before(scanned[k], scanned[m])
    /\ \A p \in UnorderedPairs :
          (\E k \in DOMAIN scanned : Before(p, scanned[k])) => p \in Range(scanned)
    /\ pc = "scan" =>
          /\ <<i, j>> \in UnorderedPairs \ Range(scanned)
          /\ \A p \in UnorderedPairs : Before(p, <<i, j>>) <=> p \in Range(scanned)

\* Every pair has been evaluated, once.
AllEvaluated ==
    /\ Range(scanned) = UnorderedPairs
    /\ 2 * Len(scanned) = n_files * (n_files - 1)

\* A step of the scan evaluates the pair (i, j) and, when it reaches the
\* threshold, leaves its two files in one cluster before the next pair.
ScanStep ==
    pc = "scan" =>
        /\ scanned' = Append(scanned, <<i, j>>)
        /\ Similar(file_i, file_j, threshold) => InOneCluster(clusters', file_i, file_j)

\* After the scan the registry is only read.
ReadOnlyStep ==
    pc \in {"print", "done"} =>
        /\ clusters' = clusters
        /\ next_cluster_id' = next_cluster_id
        /\ scanned' = scanned

\* C16, as stated: for any input of n items the scan has evaluated each of
\* the n(n-1)/2 pairs once when it ends.
PairScanAnyInput == pc # "scan" => AllEvaluated

\* C16, amended: the pairs are evaluated in ascending i, then ascending j,
\* each at most once, one per step and with its merge applied in that step;
\* for an input whose vectors all have the same dimensionality the scan ends
\* after n(n-1)/2 evaluations, each pair evaluated once, and the registry is
\* only read afterwards; on a dimension mismatch it stops at the first
\* mismatching pair.
PairScan ==
    /\ [](InScanOrder)
    /\ []((pc # "scan" /\ ~Mismatched) => (AllEvaluated /\ pc \in {"print", "done"}))
    /\ []((pc # "scan" /\ Mismatched) => pc = "ValueError")
    /\ [][ScanStep /\ ReadOnlyStep]_vars

\* The scan of MaxN files has ended after all their pairs, with a cluster.
PairScanWitness ==
    /\ pc = "print"
    /\ n_files = MaxN
    /\ AllEvaluated
    /\ clusters # <<>>

----------------------------------------------------------------------------
(* A disjoint-set structure over the identifiers *)

\* The root of f in a parent map.
RECURSIVE Find(_, _)
Find(parent, f) == IF parent[f] = f THEN f ELSE Find(parent, parent[f])

\* union(a, b): the root of b's class is hung under the root of a's.
Union(parent, a, b) ==
    LET ra == Find(parent, a)
        rb == Find(parent, b)
    IN IF ra = rb THEN parent ELSE [parent EXCEPT ![rb] = ra]

\* The parent map after union(id_i, id_j) for the pairs among the first k
\* evaluated ones that reached the threshold, in the order of evaluation.
RECURSIVE DisjointSet(_)
DisjointSet(k) ==
    IF k = 0
    THEN [f \in Files |-> f]
    ELSE LET a == embedding_files[scanned[k][1] + 1]
             b == embedding_files[scanned[k][2] + 1]
             parent == DisjointSet(k - 1)
         IN IF Similar(a, b, threshold) THEN Union(parent, a, b) ELSE parent

\* The classes of a parent map that hold two or more identifiers.
Classes(parent) ==
    {c \in {{f \in Files : Find(parent, f) = Find(parent, g)} : g \in Files} :
        Cardinality(c) >= 2}

\* C17: after every processed pair, the member sets of the registry are the
\* classes of two or more identifiers of a disjoint-set structure to which
\* union(id_i, id_j) was applied for the same matching pairs in the same
\* order.
UnionFindEquivalence ==
    pc # "done" => Members(clusters) = Classes(DisjointSet(Len(scanned)))

\* In the middle of a scan the registry holds a cluster of three identifiers
\* whose class needed a union of two non-root identifiers.
UnionFindEquivalenceWitness ==
    /\ pc = "scan"
    /\ \E c \in Members(clusters) : Cardinality(c) = 3
    /\ \E f \in Files :
          LET parent == DisjointSet(Len(scanned))
          IN parent[f] # f /\ parent[parent[f]] # parent[f]

----------------------------------------------------------------------------
(* Soundness of the clusters during the scan *)

\* The pairs of files evaluated so far that reached the threshold, both ways.
LinkedSoFar ==
    LET hit == {k \in DOMAIN scanned :
                  Similar(embedding_files[scanned[k][1] + 1],
                          embedding_files[scanned[k][2] + 1], threshold)}
    IN [a \in Files, b \in Files |->
          \E k \in hit :
              {a, b} = {embedding_files[scanned[k][1] + 1],
                        embedding_files[scanned[k][2] + 1]}]

\* C18: at every point of the scan, two identifiers are in one cluster only
\* if a chain of already evaluated pairs, each at or above the threshold,
\* links them; a cluster never holds an identifier not connected to the
\* others.
Soundness ==
    pc # "done" =>
        \A c \in Members(clusters) :
            \A a \in c : c \subseteq Closure({a}, LinkedSoFar)

\* In the middle of a scan three clusters are registered while a pair
\* across two of them that reaches the threshold has not been evaluated yet.
SoundnessWitness ==
    /\ pc = "scan"
    /\ Len(clusters) = 3
    /\ \E a, b \in Files :
          /\ Similar(a, b, threshold)
          /\ ~InOneCluster(clusters, a, b)
          /\ a \in Covered(clusters)
          /\ b \in Covered(clusters)

----------------------------------------------------------------------------
(* Order of the listing *)

\* The orders in which os.listdir can return the files of the directory.
Listings ==
    {l \in [1 .. n_files -> Files] : \A a, b \in 1 .. n_files : l[a] = l[b] => a = b}

\* C19: for the same files, vectors and threshold, every order of the
\* listing yields the same collection of cluster member sets as this run
\* (the ids attached to them may differ), and a run that stops on a
\* dimension mismatch stops in every order.
OrderIndependence ==
    /\ pc = "print" =>
          \A l \in Listings :
              LET r == ClusterAll(l, embeddings, threshold)
              IN r.status = "done" /\ Members(r.clusters) = Members(clusters)
    /\ pc = "ValueError" =>
          \A l \in Listings :
              ClusterAll(l, embeddings, threshold).status = "ValueError"

\* A completed scan holds two clusters and another order of the listing
\* attaches the ids to them the other way round.
OrderIndependenceWitness ==
    /\ pc = "print"
    /\ Len(clusters) = 2
    /\ \E l \in Listings :
          LET r == ClusterAll(l, embeddings, threshold)
          IN /\ Len(r.clusters) = 2
             /\ r.clusters[1].id = clusters[1].id
             /\ r.clusters[1].files = clusters[2].files

====
